---- MODULE Spec2Model ----
(***************************************************************************)
(* Model of gomantics/sx: the tokenizer SplitByCase and the six case       *)
(* conventions built on it (src/sx.go).                                    *)
(*                                                                         *)
(* A string is a sequence of runes; a rune is written as a one-element     *)
(* name ("a", "B", "-", "U+1D400").  NUL is Go's zero rune, the value of   *)
(* prevRune / nextRune at the ends of the input.                           *)
(***************************************************************************)
EXTENDS Integers, Sequences, FiniteSets, TLC

VARIABLES
    pc,                \* position of the call: "call" | "loop" | "done"
    s,                 \* splitByCaseWithCustomSeparators: the argument s
    customSeparators,  \* ... the argument customSeparators (a []rune, maybe nil)
    i,                 \* ... the loop index (0-based, as in the source)
    words,             \* ... the local words
    currentWord,       \* ... the local currentWord (strings.Builder)
    shouldSplit,       \* ... the local shouldSplit of the last iteration
    skipCurrentRune,   \* ... the local skipCurrentRune of the last iteration
    input,             \* a case function's argument: a string or a []string
    fn,                \* the function called ("none": a case function, not yet chosen)
    normalize,         \* the CaseConfig.Normalize it was called with
    separator,         \* KebabCase's variadic separator argument
    result             \* the string it returned

vars == << pc, s, customSeparators, i, words, currentWord, shouldSplit,
           skipCurrentRune, input, fn, normalize, separator, result >>

splitVars == << s, customSeparators, i, words, currentWord, shouldSplit,
                skipCurrentRune >>

caseVars == << input, fn, normalize, separator, result >>

(***************************************************************************)
(* Bounds of the model.                                                    *)
(***************************************************************************)
MaxLen == 4      \* longest string given to SplitByCase
MaxStrLen == 4   \* longest string given to a case function
MaxWords == 2    \* longest pre-split sequence given to a case function

(***************************************************************************)
(* Runes and the unicode package, on the code points the model uses.       *)
(*   U+1D400  MATHEMATICAL BOLD CAPITAL A: category Lu, no lowercase form  *)
(*   U+01C5   LATIN CAPITAL D WITH SMALL Z WITH CARON: category Lt         *)
(*   U+01C4 / U+01C6  its uppercase (Lu) and lowercase (Ll) forms          *)
(*   U+017F   LATIN SMALL LETTER LONG S: category Ll, uppercase form "S"   *)
(***************************************************************************)
NUL == "NUL"

UpperRunes == {"A", "B", "S", "U+1D400", "U+01C4"}

LowerRunes == {"a", "b", "s", "U+01C6", "U+017F"}

TitleRunes == {"U+01C5"}

DigitRunes == {"5"}

SpaceRunes == {" ", "\t"}

IsUpper(r) == r \in UpperRunes

IsLower(r) == r \in LowerRunes

IsLetter(r) == r \in UpperRunes \cup LowerRunes \cup TitleRunes

IsDigit(r) == r \in DigitRunes

IsSpace(r) == r \in SpaceRunes

ToUpper(r) ==
    CASE r = "a" -> "A"
      [] r = "b" -> "B"
      [] r \in {"s", "U+017F"} -> "S"
      [] r \in {"U+01C5", "U+01C6"} -> "U+01C4"
      [] OTHER -> r

ToLower(r) ==
    CASE r = "A" -> "a"
      [] r = "B" -> "b"
      [] r = "S" -> "s"
      [] r \in {"U+01C4", "U+01C5"} -> "U+01C6"
      [] OTHER -> r

\* strings.ToLower
StringsToLower(str) == [k \in 1..Len(str) |-> ToLower(str[k])]

RECURSIVE TrimLeft(_)
TrimLeft(str) ==
    IF str # << >> /\ IsSpace(Head(str)) THEN TrimLeft(Tail(str)) ELSE str

RECURSIVE TrimRight(_)
TrimRight(str) ==
    IF str # << >> /\ IsSpace(str[Len(str)])
    THEN TrimRight(SubSeq(str, 1, Len(str) - 1))
    ELSE str

\* strings.TrimSpace
TrimSpace(str) == TrimRight(TrimLeft(str))

\* slices.Contains
Contains(slice, r) == \E k \in 1..Len(slice) : slice[k] = r

\* A []rune: the nil slice, or a slice with elements elems
NilSlice == [nil |-> TRUE, elems |-> << >>]

Slice(elems) == [nil |-> FALSE, elems |-> elems]

(***************************************************************************)
(* The tokenizer.                                                          *)
(***************************************************************************)
defaultSeparators == << "-", "_", "/", ".", " ", "\\" >>

isSeparator(r) == Contains(defaultSeparators, r)

isSeparatorCustom(r, separators) == Contains(separators, r)

\* isLetterCaseChange taking any change of case between two letters
isLetterCaseChange_AnyCaseChange(prev, curr, next) ==
    \/ /\ IsLetter(prev) /\ IsLetter(curr)
       /\ \/ IsLower(prev) /\ IsUpper(curr)
          \/ IsUpper(prev) /\ IsLower(curr)
          \/ IsUpper(prev) /\ IsUpper(curr) /\ IsLetter(next) /\ IsLower(next)
    \/ IsDigit(prev) /\ IsLetter(curr) /\ IsUpper(curr)

\* isLetterCaseChange without the look at next
isLetterCaseChange_NoLookahead(prev, curr, next) ==
    \/ /\ IsLetter(prev) /\ IsLetter(curr)
       /\ \/ IsLower(prev) /\ IsUpper(curr)
          \/ IsUpper(prev) /\ IsUpper(curr)
    \/ IsDigit(prev) /\ IsLetter(curr) /\ IsUpper(curr)

\* isLetterCaseChange taking a digit before any letter
isLetterCaseChange_DigitToLetter(prev, curr, next) ==
    \/ /\ IsLetter(prev) /\ IsLetter(curr)
       /\ \/ IsLower(prev) /\ IsUpper(curr)
          \/ IsUpper(prev) /\ IsUpper(curr) /\ IsLetter(next) /\ IsLower(next)
    \/ IsDigit(prev) /\ IsLetter(curr)

isLetterCaseChange(prev, curr, next) ==
    IF /\ IsLetter(prev) /\ IsLetter(curr)
       /\ \/ IsLower(prev) /\ IsUpper(curr)
          \/ IsUpper(prev) /\ IsUpper(curr) /\ IsLetter(next) /\ IsLower(next)
    THEN TRUE
    ELSE IF /\ (IsDigit(prev) \/ IsLetter(prev)) /\ IsLetter(curr)
            /\ IsDigit(prev) /\ IsUpper(curr)
         THEN TRUE
         ELSE FALSE

\* prevRune and nextRune of iteration idx (0-based): the zero rune at the ends
PrevRune(runes, idx) == IF idx > 0 THEN runes[idx] ELSE NUL

NextRune(runes, idx) == IF idx < Len(runes) - 1 THEN runes[idx + 2] ELSE NUL

\* IsSep merging the custom list with the defaults
IsSep_Merged(r, seps) ==
    isSeparator(r) \/ (~seps.nil /\ isSeparatorCustom(r, seps.elems))

\* isSep of iteration idx: the custom list when it is not nil, else the defaults
IsSep(r, seps) ==
    IF ~seps.nil THEN isSeparatorCustom(r, seps.elems) ELSE isSeparator(r)

\* LoopBody adding a closed word only when it is not empty
LoopBody_DropEmpty(st, runes, seps, idx) ==
    LET r == runes[idx + 1]
        isSep == IsSep(r, seps)
        split == \/ isSep
                 \/ idx > 0 /\ isLetterCaseChange(PrevRune(runes, idx), r,
                                                  NextRune(runes, idx))
        pushed == IF split /\ TrimSpace(st.currentWord) # << >>
                  THEN Append(st.words, TrimSpace(st.currentWord))
                  ELSE st.words
        buffer == IF split THEN << >> ELSE st.currentWord
    IN  [words |-> pushed,
         currentWord |-> IF isSep THEN buffer ELSE Append(buffer, r),
         shouldSplit |-> split,
         skipCurrentRune |-> isSep]

\* LoopBody writing the separator into the word it starts
LoopBody_KeepSeparator(st, runes, seps, idx) ==
    LET r == runes[idx + 1]
        isSep == IsSep(r, seps)
        split == \/ isSep
                 \/ idx > 0 /\ isLetterCaseChange(PrevRune(runes, idx), r,
                                                  NextRune(runes, idx))
        pushed == IF split
                  THEN Append(st.words, TrimSpace(st.currentWord))
                  ELSE st.words
        buffer == IF split THEN << >> ELSE st.currentWord
    IN  [words |-> pushed,
         currentWord |-> Append(buffer, r),
         shouldSplit |-> split,
         skipCurrentRune |-> isSep]

\* One iteration of the loop over runes, on the locals
\* st = [words, currentWord, shouldSplit, skipCurrentRune]
LoopBody(st, runes, seps, idx) ==
    LET r == runes[idx + 1]
        isSep == IsSep(r, seps)
        split == \/ isSep
                 \/ idx > 0 /\ isLetterCaseChange(PrevRune(runes, idx), r,
                                                  NextRune(runes, idx))
        skip == isSep
        pushed == IF split
                  THEN Append(st.words, TrimSpace(st.currentWord))
                  ELSE st.words
        buffer == IF split THEN << >> ELSE st.currentWord
    IN  [words |-> pushed,
         currentWord |-> IF skip THEN buffer ELSE Append(buffer, r),
         shouldSplit |-> split,
         skipCurrentRune |-> skip]

\* AddLastWord adding the last word even when the builder is empty
AddLastWord_Always(st) == Append(st.words, TrimSpace(st.currentWord))

\* AddLastWord without the last word
AddLastWord_Never(st) == st.words

\* The code after the loop: the last word is added when the builder is not empty
AddLastWord(st) ==
    IF Len(st.currentWord) > 0
    THEN Append(st.words, TrimSpace(st.currentWord))
    ELSE st.words

InitLocals ==
    [words |-> << >>, currentWord |-> << >>,
     shouldSplit |-> FALSE, skipCurrentRune |-> FALSE]

RECURSIVE Loop(_, _, _, _)
Loop(st, runes, seps, idx) ==
    IF idx >= Len(runes) THEN st
    ELSE Loop(LoopBody(st, runes, seps, idx), runes, seps, idx + 1)

\* A sequence of one empty word in place of []string{}
EmptyWords_OneEmptyWord == << << >> >>

\* return []string{}
EmptyWords == << >>

splitByCaseWithCustomSeparators(str, seps) ==
    IF str = << >> THEN EmptyWords
    ELSE AddLastWord(Loop(InitLocals, str, seps, 0))

defaultSplitConfig == [Separators |-> NilSlice]

\* WithSeparators leaving the nil slice when no rune is given
WithSeparators_NilWhenEmpty(separators) ==
    [Separators |-> IF separators = << >> THEN NilSlice ELSE Slice(separators)]

WithSeparators(separators) == [Separators |-> Slice(separators)]

SplitByCase(str, config) ==
    splitByCaseWithCustomSeparators(str, config.Separators)

(***************************************************************************)
(* The case functions.  Their generic argument is a string or a []string.  *)
(***************************************************************************)
StringInput(str) == [isString |-> TRUE, str |-> str, slice |-> << >>]

SliceInput(slice) == [isString |-> FALSE, str |-> << >>, slice |-> slice]

\* normalizeWord lowercasing whatever the option
normalizeWord_Always(word, norm) == StringsToLower(word)

normalizeWord(word, norm) == IF norm THEN StringsToLower(word) ELSE word

capitalizeWord(word) ==
    IF word = << >> THEN word
    ELSE << ToUpper(Head(word)) >> \o Tail(word)

lowercaseWord(word) ==
    IF word = << >> THEN word
    ELSE << ToLower(Head(word)) >> \o Tail(word)

RECURSIVE Concat(_)
Concat(pieces) ==
    IF pieces = << >> THEN << >> ELSE Head(pieces) \o Concat(Tail(pieces))

NonEmpty(word) == word # << >>

\* The closures the case functions give to joinWords, each with the options
\* it captures
Closure(name, options) == [name |-> name, options |-> options]

CaseConfig(norm) == [Normalize |-> norm]

\* Capitalized normalizing after the first letter is capitalized
Capitalized_NormalizeAfter(word, idx, options) ==
    normalizeWord(capitalizeWord(word), options.Normalize)

\* The transform of PascalCase and TrainCase
Capitalized(word, idx, options) ==
    capitalizeWord(normalizeWord(word, options.Normalize))

\* The transform of CamelCase on a []string
CamelTransform(word, idx, options) ==
    IF idx = 0
    THEN lowercaseWord(normalizeWord(word, options.Normalize))
    ELSE capitalizeWord(normalizeWord(word, options.Normalize))

\* The transform of KebabCase
Lowered(word, idx) == StringsToLower(word)

\* transform(word, i)
Transform(transform, word, idx) ==
    CASE transform.name = "Capitalized" -> Capitalized(word, idx, transform.options)
      [] transform.name = "CamelTransform" -> CamelTransform(word, idx, transform.options)
      [] transform.name = "Lowered" -> Lowered(word, idx)

\* What joinWords writes for wordsToUse[k]: the separator, then the word
Written(wordsToUse, sep, transform, k) ==
    (IF k - 1 > 0 /\ sep # << >> THEN sep ELSE << >>)
        \o Transform(transform, wordsToUse[k], k - 1)

\* joinWords keeping the empty words whatever preserveEmpty is
joinWords_KeepEmpty(ws, sep, preserveEmpty, transform) ==
    IF Len(ws) = 0 THEN << >>
    ELSE Concat([k \in 1..Len(ws) |-> Written(ws, sep, transform, k)])

joinWords(ws, sep, preserveEmpty, transform) ==
    IF Len(ws) = 0 THEN << >>
    ELSE LET wordsToUse == IF ~preserveEmpty THEN SelectSeq(ws, NonEmpty) ELSE ws
         IN  Concat([k \in 1..Len(wordsToUse) |->
                        Written(wordsToUse, sep, transform, k)])

PascalCase(in, options) ==
    IF in.isString
    THEN joinWords(splitByCaseWithCustomSeparators(in.str, NilSlice), << >>, FALSE,
                   Closure("Capitalized", options))
    ELSE joinWords(in.slice, << >>, FALSE, Closure("Capitalized", options))

CamelCase(in, options) ==
    IF in.isString
    THEN lowercaseWord(PascalCase(in, options))
    ELSE IF Len(in.slice) = 0 THEN << >>
         ELSE joinWords(in.slice, << >>, FALSE,
                        Closure("CamelTransform", options))

\* KebabCase joining with "-" whatever separator it is given
KebabCase_IgnoreSeparator(in, sepArgs) ==
    IF in.isString
    THEN joinWords(splitByCaseWithCustomSeparators(in.str, NilSlice), << "-" >>,
                   TRUE, Closure("Lowered", CaseConfig(FALSE)))
    ELSE joinWords(in.slice, << "-" >>, TRUE, Closure("Lowered", CaseConfig(FALSE)))

\* sepArgs is the variadic separator: no element, or the separator
KebabCase(in, sepArgs) ==
    LET sep == IF Len(sepArgs) > 0 THEN sepArgs[1] ELSE << "-" >>
    IN  IF in.isString
        THEN joinWords(splitByCaseWithCustomSeparators(in.str, NilSlice), sep,
                       TRUE, Closure("Lowered", CaseConfig(FALSE)))
        ELSE joinWords(in.slice, sep, TRUE, Closure("Lowered", CaseConfig(FALSE)))

SnakeCase(in) == KebabCase(in, << << "_" >> >>)

TrainCase(in, options) ==
    IF in.isString
    THEN joinWords(splitByCaseWithCustomSeparators(in.str, NilSlice), << "-" >>,
                   FALSE, Closure("Capitalized", options))
    ELSE joinWords(in.slice, << "-" >>, FALSE, Closure("Capitalized", options))

FlatCase(in) == KebabCase(in, << << >> >>)

UpperFirst(str) == capitalizeWord(str)

LowerFirst(str) == lowercaseWord(str)

(***************************************************************************)
(* The calls.  A behaviour is one call: of SplitByCase, run one loop        *)
(* iteration at a time, or of a case function on a string or a []string.   *)
(***************************************************************************)
SplitAlphabet == {"a", "B", "5", "-", ",", " ", "U+01C5"}

CaseAlphabet == {"a", "B", "5", "-", "\t", "U+1D400", "U+01C5", "U+017F"}

Strings(alphabet, n) == UNION {[1..k -> alphabet] : k \in 0..n}

\* The options SplitByCase is called with: none, WithSeparators(),
\* WithSeparators(','), WithSeparators('a')
SplitConfigs ==
    {defaultSplitConfig, WithSeparators(<< >>), WithSeparators(<< "," >>),
     WithSeparators(<< "a" >>)}

\* The words of a pre-split sequence
SliceWords ==
    {<< >>, << "a" >>, << "B" >>, << "a", "B" >>, << "B", "a" >>, << "-" >>,
     << "\t" >>, << "U+017F" >>}

Slices(n) == UNION {[1..k -> SliceWords] : k \in 0..n}

CaseInputs ==
    {StringInput(x) : x \in Strings(CaseAlphabet, MaxStrLen)}
        \cup {SliceInput(v) : v \in Slices(MaxWords)}

\* The separator arguments KebabCase is called with: none, "|", "-", ""
SeparatorArgs == {<< >>, << << "|" >> >>, << << "-" >> >>, << << >> >>}

InitSplit ==
    /\ pc = "call"
    /\ fn = "SplitByCase"
    /\ s \in Strings(SplitAlphabet, MaxLen)
    /\ customSeparators \in {c.Separators : c \in SplitConfigs}
    /\ i = 0
    /\ words = << >>
    /\ currentWord = << >>
    /\ shouldSplit = FALSE
    /\ skipCurrentRune = FALSE
    /\ input = StringInput(<< >>)
    /\ normalize = FALSE
    /\ separator = << >>
    /\ result = << >>

InitCase ==
    /\ pc = "call"
    /\ fn = "none"
    /\ input \in CaseInputs
    /\ normalize = FALSE
    /\ separator = << >>
    /\ result = << >>
    /\ s = << >>
    /\ customSeparators = NilSlice
    /\ i = 0
    /\ words = << >>
    /\ currentWord = << >>
    /\ shouldSplit = FALSE
    /\ skipCurrentRune = FALSE

Init == InitSplit \/ InitCase

Locals ==
    [words |-> words, currentWord |-> currentWord,
     shouldSplit |-> shouldSplit, skipCurrentRune |-> skipCurrentRune]

SetLocals(st) ==
    /\ words' = st.words
    /\ currentWord' = st.currentWord
    /\ shouldSplit' = st.shouldSplit
    /\ skipCurrentRune' = st.skipCurrentRune

\* s == "": return []string{}
ReturnEmpty ==
    /\ pc = "call"
    /\ fn = "SplitByCase"
    /\ s = << >>
    /\ pc' = "done"
    /\ words' = EmptyWords
    /\ UNCHANGED << s, customSeparators, i, currentWord, shouldSplit,
                    skipCurrentRune, caseVars >>

\* s != "": runes, words and currentWord are set up and the loop is entered
EnterLoop ==
    /\ pc = "call"
    /\ fn = "SplitByCase"
    /\ s # << >>
    /\ pc' = "loop"
    /\ i' = 0
    /\ SetLocals(InitLocals)
    /\ UNCHANGED << s, customSeparators, caseVars >>

\* The branch the iteration at index idx takes
CaseChangeAt(runes, seps, idx) ==
    /\ ~IsSep(runes[idx + 1], seps)
    /\ idx > 0
    /\ isLetterCaseChange(PrevRune(runes, idx), runes[idx + 1],
                          NextRune(runes, idx))

Iterate ==
    /\ pc = "loop"
    /\ i < Len(s)
    /\ SetLocals(LoopBody(Locals, s, customSeparators, i))
    /\ i' = i + 1
    /\ UNCHANGED << pc, s, customSeparators, caseVars >>

\* An iteration whose rune is a separator
StepSeparator ==
    /\ pc = "loop"
    /\ i < Len(s)
    /\ IsSep(s[i + 1], customSeparators)
    /\ Iterate

\* An iteration that detects a case change
StepCaseChange ==
    /\ pc = "loop"
    /\ i < Len(s)
    /\ CaseChangeAt(s, customSeparators, i)
    /\ Iterate

\* An iteration that only appends the rune to the current word
StepAppend ==
    /\ pc = "loop"
    /\ i < Len(s)
    /\ ~IsSep(s[i + 1], customSeparators)
    /\ ~CaseChangeAt(s, customSeparators, i)
    /\ Iterate

\* The loop is over: the last word is added and words is returned
Return ==
    /\ pc = "loop"
    /\ i = Len(s)
    /\ words' = AddLastWord(Locals)
    /\ pc' = "done"
    /\ UNCHANGED << s, customSeparators, i, currentWord, shouldSplit,
                    skipCurrentRune, caseVars >>

\* A case function returns value
Returned(name, norm, sepArgs, value) ==
    /\ pc = "call"
    /\ fn = "none"
    /\ pc' = "done"
    /\ fn' = name
    /\ normalize' = norm
    /\ separator' = sepArgs
    /\ result' = value
    /\ UNCHANGED << input, splitVars >>

CallPascalCase ==
    \E norm \in BOOLEAN :
        Returned("PascalCase", norm, << >>, PascalCase(input, CaseConfig(norm)))

CallCamelCase ==
    \E norm \in BOOLEAN :
        Returned("CamelCase", norm, << >>, CamelCase(input, CaseConfig(norm)))

CallTrainCase ==
    \E norm \in BOOLEAN :
        Returned("TrainCase", norm, << >>, TrainCase(input, CaseConfig(norm)))

CallKebabCase ==
    \E sepArgs \in SeparatorArgs :
        Returned("KebabCase", FALSE, sepArgs, KebabCase(input, sepArgs))

CallSnakeCase == Returned("SnakeCase", FALSE, << >>, SnakeCase(input))

CallFlatCase == Returned("FlatCase", FALSE, << >>, FlatCase(input))

Next ==
    \/ ReturnEmpty
    \/ EnterLoop
    \/ StepSeparator
    \/ StepCaseChange
    \/ StepAppend
    \/ Return
    \/ CallPascalCase
    \/ CallCamelCase
    \/ CallTrainCase
    \/ CallKebabCase
    \/ CallSnakeCase
    \/ CallFlatCase

Spec == Init /\ [][Next]_vars

(***************************************************************************)
(* Properties.                                                              *)
(***************************************************************************)
ASCIIRunes ==
    {"a", "b", "s", "A", "B", "S", "5", "-", "_", "/", ".", "\\", " ", "\t",
     ",", "|"}

IsASCII(str) == \A k \in 1..Len(str) : str[k] \in ASCIIRunes

HasUpper(str) == \E k \in 1..Len(str) : IsUpper(str[k])

Front(str) == SubSeq(str, 1, Len(str) - 1)

EndsWith(str, r) == str # << >> /\ str[Len(str)] = r

\* A case function has returned from a call on a string
StringCallDone(name) == pc = "done" /\ fn = name /\ input.isString

\* C1 (as stated): KebabCase with the default "-" is idempotent on every
\* string: KebabCase(KebabCase(x)) = KebabCase(x).
C1_KebabIdempotent ==
    (StringCallDone("KebabCase") /\ separator = << >>)
        => KebabCase(StringInput(result), << >>) = result

\* C1 (amended): for every string x whose KebabCase(x) holds no uppercase
\* letter (every ASCII x), KebabCase(KebabCase(x)) = KebabCase(x) unless
\* KebabCase(x) ends with "-"; then the second application drops exactly
\* that final "-".
C1_KebabIdempotentUnlessTrailing ==
    (StringCallDone("KebabCase") /\ separator = << >>)
        => /\ IsASCII(input.str) => ~HasUpper(result)
           /\ ~HasUpper(result) =>
                KebabCase(StringInput(result), << >>) =
                    IF EndsWith(result, "-") THEN Front(result) ELSE result

\* C1 witness: a string was split at a case change or separator and its
\* kebab form, not ending with "-", is reached
C1_Witness ==
    /\ StringCallDone("KebabCase")
    /\ separator = << >>
    /\ input.str = << "a", "B" >>
    /\ result = << "a", "-", "b" >>

\* C1 witness of the trailing case: the kebab form ends with "-"
C1_WitnessTrailing ==
    /\ StringCallDone("KebabCase")
    /\ separator = << >>
    /\ EndsWith(result, "-")
    /\ KebabCase(StringInput(result), << >>) = Front(result)

\* The case function fn applied again, with the same normalize setting
Reapplied ==
    CASE fn = "PascalCase" -> PascalCase(StringInput(result), CaseConfig(normalize))
      [] fn = "CamelCase" -> CamelCase(StringInput(result), CaseConfig(normalize))
      [] fn = "TrainCase" -> TrainCase(StringInput(result), CaseConfig(normalize))
      [] OTHER -> result

\* No case change is detected anywhere in str
NoCaseChange(str) ==
    \A idx \in 1..(Len(str) - 1) :
        ~isLetterCaseChange(PrevRune(str, idx), str[idx + 1], NextRune(str, idx))

\* C2 (as stated): PascalCase, CamelCase and TrainCase give their own output
\* back, for every string and both normalize settings.
C2_ReserializesItself ==
    (pc = "done" /\ input.isString
        /\ fn \in {"PascalCase", "CamelCase", "TrainCase"})
        => Reapplied = result

\* C2 (amended): PascalCase and CamelCase give their own output back when
\* normalize is off; TrainCase gives its own output back, with either
\* normalize setting, whenever that output holds no case change, which is so
\* for every ASCII string.
C2_ReserializesItselfAmended ==
    (pc = "done" /\ input.isString)
        => /\ (fn \in {"PascalCase", "CamelCase"} /\ ~normalize)
                => Reapplied = result
           /\ (fn = "TrainCase" /\ IsASCII(input.str)) => NoCaseChange(result)
           /\ (fn = "TrainCase" /\ NoCaseChange(result)) => Reapplied = result

\* C2 witness: a string of two words went through PascalCase without
\* normalize, and its output re-tokenizes into other words
C2_Witness ==
    /\ StringCallDone("PascalCase")
    /\ ~normalize
    /\ input.str = << "a", "-", "a" >>
    /\ result = << "A", "A" >>
    /\ splitByCaseWithCustomSeparators(result, NilSlice) = << << "A", "A" >> >>

\* SplitByCase has just run the loop iteration on the rune s[i] (1-based)
Scanned == fn = "SplitByCase" /\ pc = "loop" /\ i >= 1

\* The last iteration closed the current word at a case change
CaseSplit == shouldSplit /\ ~skipCurrentRune

\* SplitByCase has returned words
SplitDone == fn = "SplitByCase" /\ pc = "done"

\* C3: SplitByCase("") returns a sequence of length 0, whatever the
\* separators, and every case function returns "" for the empty string and
\* for the empty sequence, whatever the options.
C3_EmptyInput ==
    /\ (SplitDone /\ s = << >>) => Len(words) = 0
    /\ (pc = "done" /\ fn # "SplitByCase"
          /\ input \in {StringInput(<< >>), SliceInput(<< >>)})
        => result = << >>

\* C3 witness: SplitByCase("") has returned, called with an override
C3_Witness == SplitDone /\ s = << >> /\ ~customSeparators.nil

\* C3 witness of the case functions: KebabCase was called on an empty
\* sequence with a separator argument
C3_WitnessCase ==
    /\ pc = "done" /\ fn = "KebabCase"
    /\ input = SliceInput(<< >>) /\ separator = << << "|" >> >>

\* The three cases of a case transition
TransitionTable(prev, curr, next) ==
    \/ IsLetter(prev) /\ IsLower(prev) /\ IsLetter(curr) /\ IsUpper(curr)
    \/ /\ IsLetter(prev) /\ IsUpper(prev) /\ IsLetter(curr) /\ IsUpper(curr)
       /\ next # NUL /\ IsLetter(next) /\ IsLower(next)
    \/ IsDigit(prev) /\ IsLetter(curr) /\ IsUpper(curr)

\* C4: isLetterCaseChange(prev, curr, next) is true exactly for lower-upper,
\* for upper-upper with a lowercase next, and for digit-upper, on every
\* triple the loop meets (the zero rune stands for an absent neighbour); and
\* the loop closes a word at a case change exactly when the rune is no
\* separator, is not the first rune and the predicate is true.
C4_CaseTransitionTable ==
    Scanned =>
        LET prev == PrevRune(s, i - 1)
            curr == s[i]
            next == NextRune(s, i - 1)
        IN  /\ isLetterCaseChange(prev, curr, next)
                 = TransitionTable(prev, curr, next)
            /\ CaseSplit = /\ ~IsSep(curr, customSeparators)
                           /\ i - 1 > 0
                           /\ TransitionTable(prev, curr, next)
            /\ i = 1 => ~CaseSplit

\* C4 witness: the second of two uppercase letters, followed by a lowercase
\* letter, has closed a word
C4_Witness ==
    /\ Scanned /\ i = 2 /\ CaseSplit
    /\ IsUpper(s[1]) /\ IsUpper(s[2]) /\ Len(s) >= 3 /\ IsLower(s[3])

\* The last index of the run of uppercase letters that holds index k
RunLast(str, k) ==
    CHOOSE q \in k..Len(str) :
        /\ \A m \in k..q : IsUpper(str[m])
        /\ q = Len(str) \/ ~IsUpper(str[q + 1])

FollowedByLower(str, q) == q < Len(str) /\ IsLower(str[q + 1])

NoSeparatorIn(str, seps) == \A k \in 1..Len(str) : ~IsSep(str[k], seps)

\* str is n >= 2 uppercase letters and then only lowercase letters
AcronymThenLower(str, n) ==
    /\ n >= 2 /\ n < Len(str)
    /\ \A k \in 1..Len(str) : IF k <= n THEN IsUpper(str[k]) ELSE IsLower(str[k])

\* C5: inside a run of two or more uppercase letters (none of them a
\* separator) the loop closes a word before a letter exactly when that letter
\* is the last of the run and a lowercase letter follows; the closed word
\* ends with the letter before and the new word starts with this one.  So an
\* uppercase run followed by lowercase letters gives the run without its last
\* letter and then the rest, and an all-uppercase string stays one word.
C5_AcronymBoundary ==
    /\ (Scanned /\ i >= 2 /\ IsUpper(s[i - 1]) /\ IsUpper(s[i])
          /\ ~IsSep(s[i - 1], customSeparators) /\ ~IsSep(s[i], customSeparators))
        => /\ shouldSplit = (RunLast(s, i) = i /\ FollowedByLower(s, i))
           /\ shouldSplit =>
                /\ currentWord = << s[i] >>
                /\ words # << >>
                /\ EndsWith(words[Len(words)], s[i - 1])
           /\ ~shouldSplit =>
                /\ Len(currentWord) >= 2
                /\ SubSeq(currentWord, Len(currentWord) - 1, Len(currentWord))
                     = << s[i - 1], s[i] >>
    /\ (SplitDone /\ NoSeparatorIn(s, customSeparators))
        => /\ \A n \in 2..Len(s) :
                AcronymThenLower(s, n)
                    => words = << SubSeq(s, 1, n - 1), SubSeq(s, n, Len(s)) >>
           /\ (s # << >> /\ \A k \in 1..Len(s) : IsUpper(s[k]))
                => words = << s >>

\* C5 witness: "BBBa" was split into "BB" and "Ba"
C5_Witness ==
    /\ SplitDone /\ customSeparators.nil
    /\ s = << "B", "B", "B", "a" >>
    /\ words = << << "B", "B" >>, << "B", "a" >> >>

\* The loop closes a word at the rune str[p] (1-based)
SplitAt(str, seps, p) == IsSep(str[p], seps) \/ CaseChangeAt(str, seps, p - 1)

\* The number of words the loop has closed once it is past str[n]
NumSplitsUpTo(str, seps, n) ==
    Cardinality({p \in 1..n : SplitAt(str, seps, p)})

\* C6: a case change never closes a word before a digit or a lowercase
\* letter: letter-digit and digit-lower pairs never split, digit-upper does.
\* So the word that starts at a case change starts with that uppercase
\* letter, in the loop and in the returned words.
C6_DigitRule ==
    /\ Scanned =>
        /\ CaseSplit => (IsLetter(s[i]) /\ IsUpper(s[i]) /\ currentWord = << s[i] >>)
        /\ (i >= 2 /\ IsLetter(s[i - 1]) /\ IsDigit(s[i])) => ~CaseSplit
        /\ (i >= 2 /\ IsDigit(s[i - 1]) /\ IsLower(s[i])) => ~CaseSplit
        /\ (i >= 2 /\ IsDigit(s[i - 1]) /\ IsUpper(s[i])
              /\ ~IsSep(s[i], customSeparators)) => CaseSplit
    /\ SplitDone =>
        \A p \in 1..Len(s) :
            CaseChangeAt(s, customSeparators, p - 1) =>
                LET k == NumSplitsUpTo(s, customSeparators, p) + 1
                IN  /\ k <= Len(words)
                    /\ words[k] # << >>
                    /\ words[k][1] = s[p]
                    /\ IsUpper(words[k][1])

\* C6 witness: "B5Ba" was split into "B5" and "Ba" with the default separators
C6_Witness ==
    /\ SplitDone /\ customSeparators.nil
    /\ s = << "B", "5", "B", "a" >>
    /\ words = << << "B", "5" >>, << "B", "a" >> >>

\* str[p..q] are all separators
AllSeparators(str, seps, p, q) == \A m \in p..q : IsSep(str[m], seps)

\* No letter and no digit is an active separator (so for the defaults)
NoLetterOrDigit(seps) ==
    seps.nil \/ \A k \in 1..Len(seps.elems) :
                    ~IsLetter(seps.elems[k]) /\ ~IsDigit(seps.elems[k])

Count(r, str) == Cardinality({k \in 1..Len(str) : str[k] = r})

\* The default separators that the override elems leaves out
DefaultsNotIn(elems) ==
    {defaultSeparators[k] : k \in 1..Len(defaultSeparators)}
        \ {elems[k] : k \in 1..Len(elems)}

\* str[p] is whitespace at an edge of its word: only whitespace lies between
\* it and a separator or an end of str
TrimmedAt(str, seps, p) ==
    LET blank(m) == IsSpace(str[m]) /\ ~IsSep(str[m], seps)
    IN  \/ \E a \in 1..p : /\ \A m \in a..p : blank(m)
                           /\ a = 1 \/ IsSep(str[a - 1], seps)
        \/ \E b \in p..Len(str) : /\ \A m \in p..b : blank(m)
                                  /\ b = Len(str) \/ IsSep(str[b + 1], seps)

\* The part of C8 that holds at every loop step: with an override, a rune
\* closes the word and is dropped exactly when it is in the override; a
\* default separator outside it closes no word and joins the current word
OverrideDecides ==
    (Scanned /\ ~customSeparators.nil) =>
        /\ (shouldSplit /\ skipCurrentRune) = Contains(customSeparators.elems, s[i])
        /\ skipCurrentRune = Contains(customSeparators.elems, s[i])
        /\ s[i] \in DefaultsNotIn(customSeparators.elems) =>
             (~shouldSplit /\ EndsWith(currentWord, s[i]))

\* C8 (as stated): an override replaces the defaults: a rune splits and is
\* dropped iff it is in the override, and every default separator outside
\* the override closes no word and is kept in the word it occurs in.
C8_OverrideReplaces ==
    /\ OverrideDecides
    /\ (SplitDone /\ ~customSeparators.nil) =>
        \A d \in DefaultsNotIn(customSeparators.elems) :
            Count(d, Concat(words)) = Count(d, s)

\* C8 (amended): the same, but a space outside the override is kept only
\* when it is not at an edge of its word: the whitespace trim removes the
\* leading and trailing spaces of every word.
C8_OverrideReplacesButTrims ==
    /\ OverrideDecides
    /\ (SplitDone /\ ~customSeparators.nil) =>
        \A d \in DefaultsNotIn(customSeparators.elems) :
            Count(d, Concat(words)) =
                Cardinality({p \in 1..Len(s) :
                    s[p] = d /\ ~TrimmedAt(s, customSeparators, p)})

\* C8 witness: "a,-a" with the override ',' was split into "a" and "-a"
C8_Witness ==
    /\ SplitDone /\ customSeparators = WithSeparators(<< "," >>).Separators
    /\ s = << "a", ",", "-", "a" >>
    /\ words = << << "a" >>, << "-", "a" >> >>

\* C9: WithSeparators() with no rune is not the absence of an override: no
\* rune is dropped, a word is closed exactly at the case transitions, and
\* the words of an input without leading or trailing whitespace concatenate
\* to the input; without an override every default separator splits and is
\* dropped.
C9_EmptyOverride ==
    /\ (Scanned /\ customSeparators = WithSeparators(<< >>).Separators) =>
        /\ ~skipCurrentRune
        /\ shouldSplit = (i > 1 /\ TransitionTable(PrevRune(s, i - 1), s[i],
                                                    NextRune(s, i - 1)))
    /\ (SplitDone /\ customSeparators = WithSeparators(<< >>).Separators
          /\ s # << >> /\ ~IsSpace(s[1]) /\ ~IsSpace(s[Len(s)])) =>
        Concat(words) = s
    /\ (Scanned /\ customSeparators = defaultSplitConfig.Separators) =>
        /\ skipCurrentRune = isSeparator(s[i])
        /\ isSeparator(s[i]) => shouldSplit

\* C9 witness: "a-aB" with the empty override was split into "a-a" and "B"
C9_Witness ==
    /\ SplitDone /\ customSeparators = WithSeparators(<< >>).Separators
    /\ s = << "a", "-", "a", "B" >>
    /\ words = << << "a", "-", "a" >>, << "B" >> >>
    /\ splitByCaseWithCustomSeparators(s, defaultSplitConfig.Separators)
         = << << "a" >>, << "a" >>, << "B" >> >>

\* The words a case function works on: the tokens of a string input, or the
\* pre-split sequence as given
InputWords ==
    IF input.isString
    THEN splitByCaseWithCustomSeparators(input.str, NilSlice)
    ELSE input.slice

\* The lowercased words of ws with sep between each two of them
RECURSIVE LoweredJoin(_, _)
LoweredJoin(ws, sep) ==
    IF ws = << >> THEN << >>
    ELSE IF Len(ws) = 1 THEN StringsToLower(ws[1])
         ELSE StringsToLower(ws[1]) \o sep \o LoweredJoin(Tail(ws), sep)

RECURSIVE TotalLen(_)
TotalLen(ws) == IF ws = << >> THEN 0 ELSE Len(Head(ws)) + TotalLen(Tail(ws))

\* The join string of the KebabCase or SnakeCase call
JoinString ==
    IF fn = "SnakeCase" THEN << "_" >>
    ELSE IF Len(separator) > 0 THEN separator[1] ELSE << "-" >>

\* C10: PascalCase, CamelCase and TrainCase drop the empty words: on a
\* string or a pre-split sequence they return what they return on the same
\* words with the empty ones removed, and TrainCase of a string never starts
\* or ends with "-" and never holds "--".  KebabCase and SnakeCase keep
\* them: n words, the empty ones counted, are joined by n-1 separators.
C10_EmptyWordsDroppedOrKept ==
    LET kept == SliceInput(SelectSeq(InputWords, NonEmpty))
        n == Len(InputWords)
    IN  /\ (pc = "done" /\ fn = "PascalCase")
            => result = PascalCase(kept, CaseConfig(normalize))
        /\ (pc = "done" /\ fn = "TrainCase")
            => result = TrainCase(kept, CaseConfig(normalize))
        /\ (pc = "done" /\ fn = "CamelCase" /\ ~input.isString)
            => result = CamelCase(kept, CaseConfig(normalize))
        /\ (pc = "done" /\ fn = "CamelCase" /\ input.isString)
            => result = lowercaseWord(PascalCase(kept, CaseConfig(normalize)))
        /\ (pc = "done" /\ fn = "TrainCase" /\ input.isString /\ result # << >>)
            => /\ result[1] # "-"
               /\ result[Len(result)] # "-"
               /\ \A k \in 1..(Len(result) - 1) :
                    ~(result[k] = "-" /\ result[k + 1] = "-")
        /\ (pc = "done" /\ fn \in {"KebabCase", "SnakeCase"} /\ n >= 1)
            => /\ result = LoweredJoin(InputWords, JoinString)
               /\ Len(result) = TotalLen(InputWords) + (n - 1) * Len(JoinString)
               /\ (input.isString /\ Len(JoinString) = 1
                     /\ JoinString[1] \in {"-", "_"})
                    => Count(JoinString[1], result) = n - 1

\* C10 witness: PascalCase("a--a") returned "AA"
C10_Witness ==
    /\ StringCallDone("PascalCase")
    /\ input.str = << "a", "-", "-", "a" >>
    /\ InputWords = << << "a" >>, << >>, << "a" >> >>
    /\ result = << "A", "A" >>

\* C10 witness of the kept words: KebabCase("a--a") returned "a--a"
C10_WitnessKept ==
    /\ StringCallDone("KebabCase")
    /\ separator = << >>
    /\ input.str = << "a", "-", "-", "a" >>
    /\ result = << "a", "-", "-", "a" >>

\* The words PascalCase, CamelCase and TrainCase write: the non-empty ones
WrittenWords == SelectSeq(InputWords, NonEmpty)

\* The join string of the PascalCase, CamelCase or TrainCase call
CapitalJoin == IF fn = "TrainCase" THEN << "-" >> ELSE << >>

\* The part of result written for the k-th of the words ws, joined by sep
OutputWord(ws, sep, k) ==
    LET start == TotalLen(SubSeq(ws, 1, k - 1)) + (k - 1) * Len(sep)
    IN  SubSeq(result, start + 1, start + Len(ws[k]))

\* C11: PascalCase, CamelCase and TrainCase write each non-empty word in
\* order, as long as it was.  With normalize on, every character after the
\* first is the lowercase form of the word's character and the first is the
\* capitalized (for CamelCase's first word: lowercased) form of the lowercased
\* first character.  With normalize off every character after the first is
\* the word's character unchanged and only the first is capitalized (or
\* lowercased).
C11_NormalizeOption ==
    (pc = "done" /\ fn \in {"PascalCase", "CamelCase", "TrainCase"}) =>
        LET ws == WrittenWords
            n == Len(ws)
        IN  /\ Len(result) =
                 TotalLen(ws) + (IF n > 0 THEN (n - 1) * Len(CapitalJoin) ELSE 0)
            /\ \A k \in 1..n :
                 LET w == ws[k]
                     out == OutputWord(ws, CapitalJoin, k)
                     first == IF normalize THEN ToLower(w[1]) ELSE w[1]
                 IN  /\ Len(out) = Len(w)
                     /\ Tail(out) = IF normalize THEN StringsToLower(Tail(w))
                                                 ELSE Tail(w)
                     /\ normalize =>
                          \A m \in 2..Len(out) : ToLower(out[m]) = out[m]
                     /\ (fn # "CamelCase" \/ k > 1) => out[1] = ToUpper(first)
                     /\ (fn = "CamelCase" /\ k = 1) =>
                          /\ out[1] \in {ToLower(first), ToLower(ToUpper(first))}
                          /\ ToLower(out[1]) = out[1]

\* C11 witness: PascalCase("BBBa") with normalize on returned "BbBa", the
\* words "BB" and "Ba" lowercased and then capitalized
C11_Witness ==
    /\ StringCallDone("PascalCase") /\ normalize
    /\ input.str = << "B", "B", "B", "a" >>
    /\ WrittenWords = << << "B", "B" >>, << "B", "a" >> >>
    /\ result = << "B", "b", "B", "a" >>

\* C11 witness with normalize off: PascalCase("BBBa") returned "BBBa"
C11_WitnessOff ==
    /\ StringCallDone("PascalCase") /\ ~normalize
    /\ input.str = << "B", "B", "B", "a" >>
    /\ result = << "B", "B", "B", "a" >>

\* What CamelCase is said to be: LowerFirst of PascalCase of the same input
\* with the same normalize setting
LowerFirstOfPascal == LowerFirst(PascalCase(input, CaseConfig(normalize)))

\* C12: CamelCase(input) = LowerFirst(PascalCase(input)) for every string,
\* every pre-split sequence (leading empty words included) and both
\* normalize settings; so every character after the first is PascalCase's.
C12_CamelIsLowerFirstPascal ==
    (pc = "done" /\ fn = "CamelCase") =>
        /\ result = LowerFirstOfPascal
        /\ Len(result) = Len(PascalCase(input, CaseConfig(normalize)))
        /\ result # << >> =>
             Tail(result) = Tail(PascalCase(input, CaseConfig(normalize)))

\* str with every occurrence of r removed
Without(str, r) == LET keep(x) == x # r IN SelectSeq(str, keep)

\* str with every occurrence of r replaced by t
Replaced(str, r, t) == [k \in 1..Len(str) |-> IF str[k] = r THEN t ELSE str[k]]

\* The join string the call is said to use: the one given to KebabCase, "-"
\* when none is given, "_" for SnakeCase and "" for FlatCase
SaidJoin ==
    CASE fn = "SnakeCase" -> << "_" >>
      [] fn = "FlatCase" -> << >>
      [] OTHER -> IF Len(separator) > 0 THEN separator[1] ELSE << "-" >>

\* C13: KebabCase(input, sep), SnakeCase(input) and FlatCase(input) return
\* the lowercased words of the input, the empty ones kept, joined by sep
\* ("-" when KebabCase is given none), by "_" and by "": n >= 1 words give
\* n-1 join strings.  So SnakeCase is KebabCase with "_", FlatCase is
\* KebabCase with "", and on a string FlatCase is the default KebabCase with
\* every "-" removed and SnakeCase is it with every "-" replaced by "_".
C13_KebabJoinString ==
    (pc = "done" /\ fn \in {"KebabCase", "SnakeCase", "FlatCase"}) =>
        LET n == Len(InputWords)
        IN  /\ result = LoweredJoin(InputWords, SaidJoin)
            /\ n >= 1 =>
                 Len(result) = TotalLen(InputWords) + (n - 1) * Len(SaidJoin)
            /\ (fn = "KebabCase" /\ separator = << >>) =>
                 result = KebabCase(input, << << "-" >> >>)
            /\ fn = "SnakeCase" => result = KebabCase(input, << << "_" >> >>)
            /\ fn = "FlatCase" => result = KebabCase(input, << << >> >>)
            /\ (fn = "FlatCase" /\ input.isString) =>
                 result = Without(KebabCase(input, << >>), "-")
            /\ (fn = "SnakeCase" /\ input.isString) =>
                 result = Replaced(KebabCase(input, << >>), "-", "_")

\* C13 witness: KebabCase("a-B", "|") returned "a|b"
C13_Witness ==
    /\ StringCallDone("KebabCase")
    /\ separator = << << "|" >> >>
    /\ input.str = << "a", "-", "B" >>
    /\ result = << "a", "|", "b" >>

\* C13 witness of FlatCase: FlatCase("a--B") returned "ab" where the default
\* KebabCase returns "a--b"
C13_WitnessFlat ==
    /\ StringCallDone("FlatCase")
    /\ input.str = << "a", "-", "-", "B" >>
    /\ result = << "a", "b" >>
    /\ KebabCase(input, << >>) = << "a", "-", "-", "b" >>

\* C14: whenever the loop closes the current word at a case transition (not
\* at a separator), the word it adds to words is not empty, whatever the
\* active separators are, overrides with letters or digits included.
C14_CaseSplitWordNonEmpty ==
    (Scanned /\ CaseSplit) =>
        /\ words # << >>
        /\ words[Len(words)] # << >>

\* str ends with an active separator
EndsWithSeparator(str, seps) == str # << >> /\ IsSep(str[Len(str)], seps)

\* The length the output is said to have: the number of split points
\* (separators and case transitions), and one more unless the input ends with
\* a separator
SaidLength(str, seps) ==
    NumSplitsUpTo(str, seps, Len(str))
        + (IF EndsWithSeparator(str, seps) THEN 0 ELSE 1)

\* What C15 says of an input the loop has scanned: the last word is added
\* exactly when the builder is not empty, which is when the input does not
\* end with a separator; a trailing separator adds no trailing empty word and
\* a leading separator adds a leading empty word.
FlushRule ==
    (SplitDone /\ s # << >>) =>
        LET n == NumSplitsUpTo(s, customSeparators, Len(s))
        IN  /\ (currentWord # << >>) = ~EndsWithSeparator(s, customSeparators)
            /\ Len(words) = n + (IF currentWord # << >> THEN 1 ELSE 0)
            /\ currentWord # << >> => words[Len(words)] = TrimSpace(currentWord)
            /\ IsSep(s[1], customSeparators) => words[1] = << >>
            /\ (Len(s) >= 2 /\ AllSeparators(s, customSeparators, Len(s) - 1, Len(s)))
                 => words[Len(words)] = << >>
            /\ (Len(s) >= 2 /\ EndsWithSeparator(s, customSeparators)
                  /\ ~IsSep(s[Len(s) - 1], customSeparators)
                  /\ ~IsSpace(s[Len(s) - 1]))
                 => EndsWith(words[Len(words)], s[Len(s) - 1])

\* C15 (as stated): for every input and separator set the output has as many
\* words as the input has split points when the input ends with a separator,
\* and one more otherwise.
C15_FlushLength ==
    /\ FlushRule
    /\ SplitDone => Len(words) = SaidLength(s, customSeparators)

\* C15 (amended): the same for every input that is not empty; the empty
\* input, which has no split point and ends with no separator, gives no word.
C15_FlushLengthNonEmptyInput ==
    /\ FlushRule
    /\ (SplitDone /\ s # << >>) => Len(words) = SaidLength(s, customSeparators)
    /\ (SplitDone /\ s = << >>) => Len(words) = 0

\* C15 witness: "a--" was split into "a" and "": two split points, no
\* trailing word
C15_Witness ==
    /\ SplitDone /\ customSeparators.nil
    /\ s = << "a", "-", "-" >>
    /\ currentWord = << >>
    /\ words = << << "a" >>, << >> >>

\* C15 witness of the leading separator: "-a" was split into "" and "a"
C15_WitnessLeading ==
    /\ SplitDone /\ customSeparators.nil
    /\ s = << "-", "a" >>
    /\ words = << << >>, << "a" >> >>

\* SplitByCase(input) with the default separators, as a pre-split sequence
Tokens == SliceInput(SplitByCase(input.str, defaultSplitConfig))

\* The case function fn called on that sequence with the options of the call
OnTokens ==
    CASE fn = "PascalCase" -> PascalCase(Tokens, CaseConfig(normalize))
      [] fn = "CamelCase" -> CamelCase(Tokens, CaseConfig(normalize))
      [] fn = "TrainCase" -> TrainCase(Tokens, CaseConfig(normalize))
      [] fn = "KebabCase" -> KebabCase(Tokens, separator)
      [] fn = "SnakeCase" -> SnakeCase(Tokens)
      [] fn = "FlatCase" -> FlatCase(Tokens)
      [] OTHER -> result

\* C16: each of the six case functions, with any options, returns on a
\* string what it returns on the pre-split sequence SplitByCase gives for
\* that string with the default separators.
C16_EntryPointsAgree ==
    (pc = "done" /\ fn # "SplitByCase" /\ input.isString) => result = OnTokens

\* str with every active separator deleted
Stripped(str, seps) == LET kept(r) == ~IsSep(r, seps) IN SelectSeq(str, kept)

\* All the whitespace of str is active separators
OnlySeparatorWhitespace(str, seps) ==
    \A p \in 1..Len(str) : IsSpace(str[p]) => IsSep(str[p], seps)

\* C17: no word of SplitByCase's output, and no word it is building, holds
\* an active separator (default or override); and for an input whose
\* whitespace is all active separators the words, concatenated in order, are
\* the input with every active separator deleted: at every step of the loop
\* the words so far and the current word are the scanned part without its
\* separators, and the returned words are the whole input without them.
C17_SeparatorsStrippedOrderKept ==
    /\ (fn = "SplitByCase" /\ pc \in {"loop", "done"}) =>
        /\ \A k \in 1..Len(words) : NoSeparatorIn(words[k], customSeparators)
        /\ NoSeparatorIn(currentWord, customSeparators)
    /\ (fn = "SplitByCase" /\ pc = "loop"
          /\ OnlySeparatorWhitespace(s, customSeparators)) =>
        Concat(words) \o currentWord = Stripped(SubSeq(s, 1, i), customSeparators)
    /\ (SplitDone /\ OnlySeparatorWhitespace(s, customSeparators)) =>
        /\ Concat(words) = Stripped(s, customSeparators)
        /\ TotalLen(words) =
             Len(s) - Cardinality({p \in 1..Len(s) : IsSep(s[p], customSeparators)})

\* C17 witness: "a-aB" was split into "a", "a" and "B", which concatenate to
\* "aaB"
C17_Witness ==
    /\ SplitDone /\ customSeparators.nil
    /\ s = << "a", "-", "a", "B" >>
    /\ words = << << "a" >>, << "a" >>, << "B" >> >>
    /\ Concat(words) = << "a", "a", "B" >>

\* C17 witness with an override: "Ba,a" with the override 'a' was split into
\* "B" and ","
C17_WitnessOverride ==
    /\ SplitDone /\ customSeparators = WithSeparators(<< "a" >>).Separators
    /\ s = << "B", "a", ",", "a" >>
    /\ words = << << "B" >>, << "," >> >>

====
